---- MODULE Spec2Model ----
(***************************************************************************)
(* EyeOfHorus: the bitwise phonemic engine (eye_of_horus/bitwise.py) and   *)
(* the string-based hourglass lexicon it mirrors (eye_of_horus/engine.py). *)
(*                                                                         *)
(* The module-level tables are built once at import; afterwards every      *)
(* public function is a pure call.  The state machine below first runs the *)
(* table-construction loop and then performs one library call per step,    *)
(* recording the call (op, args) and what it returned or raised (result).  *)
(***************************************************************************)
EXTENDS Integers, Sequences, FiniteSets, TLC

VARIABLES pc, loaded, PHONEME_TO_ID, ID_TO_PHONEME, VERB_TABLE, CORE_VERB_TABLE,
          op, args, result,
          remaining, position, boundaries,
          files, opened, _corpus, _corpus_path, _pyramid_texts

\* The module-level tables: a dict and three numpy arrays, all mutable objects.
tables == <<PHONEME_TO_ID, ID_TO_PHONEME, VERB_TABLE, CORE_VERB_TABLE>>

\* The locals of a running rhythm.detect_phi_boundaries.
phi_locals == <<remaining, position, boundaries>>

\* The module-level caches of corpus.py and pyramid.py.
caches == <<_corpus, _corpus_path, _pyramid_texts>>

\* What the calls of bitwise.py, engine.py and mapping.py never touch: the
\* rhythm locals, the file system, the files a call has opened, the caches.
elsewhere == <<remaining, position, boundaries, files, opened,
               _corpus, _corpus_path, _pyramid_texts>>

vars == <<pc, loaded, PHONEME_TO_ID, ID_TO_PHONEME, VERB_TABLE, CORE_VERB_TABLE,
          op, args, result,
          remaining, position, boundaries,
          files, opened, _corpus, _corpus_path, _pyramid_texts>>

(***************************************************************************)
(* Bounds of the model.                                                    *)
(***************************************************************************)
\* Longest phoneme-id sequence handed to the layer decoder.
MaxLen == 2
\* How far past the end of its documented range an integer input is drawn.
Slack == 2
\* Bits of significand kept by the model of Python's float (see FloatSqrt).
MantissaBits == 14
\* Largest phoneme count and longest sequence handed to the rhythm functions.
MaxCount == 16
\* Most rows in the default corpus file.
MaxCorpus == 3

(***************************************************************************)
(* Phoneme ids, masks and positions (bitwise.py).                          *)
(***************************************************************************)
ID_N  == 0
ID_W  == 1
ID_S  == 2
ID_SH == 3
ID_A  == 4
ID_T  == 5
ID_H  == 6
ID_R  == 7
ID_M  == 8
ID_AA == 9
ID_Y  == 10
ID_B  == 11
ID_P  == 12
ID_I  == 13
ID_KH == 14
ID_DJ == 15
ID_D  == 16
ID_K  == 17
ID_X  == 18
ID_G  == 19
ID_F  == 20
ID_HH == 21

SPINE_BIT == 16

\* class Pos(IntEnum)
EQ_MASC  == 0
MIN_MASC == 1
MAX_MASC == 2
EQ_FEM   == 4
MIN_FEM  == 5
MAX_FEM  == 6

MODE_MASC == 0
MODE_FEM  == 1
MODE_MASK == 4

POLE_EQ   == 0
POLE_MIN  == 1
POLE_MAX  == 2
POLE_MASK == 3

\* class Layer(IntEnum)
CORE == 0
F1   == 1
F2   == 2
M1   == 3
M2   == 4

NUM_PHONEMES == 22
NUM_WHEEL == 16
NUM_SPINE == 6
NUM_WHEEL_RELATIONS == 136
TOTAL_GRAMMAR == 408

\* np.empty(256, dtype='U16'): the number of slots of VERB_TABLE.
VERB_TABLE_SIZE == 256

\* LAYER_POS[layer], layer in 0..4 (a 5-element uint8 array).
LAYER_POS == <<EQ_MASC, MIN_FEM, MAX_FEM, MIN_MASC, MAX_MASC>>

\* The dict display bound to PHONEME_TO_ID.
PhonemeToIdLiteral ==
    "n" :> ID_N @@ "w" :> ID_W @@ "s" :> ID_S @@ "sh" :> ID_SH @@
    "A" :> ID_A @@ "t" :> ID_T @@ "H" :> ID_H @@ "r" :> ID_R @@
    "m" :> ID_M @@ "a" :> ID_AA @@ "y" :> ID_Y @@ "b" :> ID_B @@
    "p" :> ID_P @@ "i" :> ID_I @@ "kh" :> ID_KH @@ "dj" :> ID_DJ @@
    "d" :> ID_D @@ "k" :> ID_K @@ "x" :> ID_X @@
    "g" :> ID_G @@ "f" :> ID_F @@ "h" :> ID_HH

\* Mutant: the array listing the spine labels in the order of the engine's
\* hourglass dict.
IdToPhonemeLiteral_engine_order ==
    LET labels == <<"n", "w", "s", "sh", "A", "t", "H", "r",
                    "m", "a", "y", "b", "p", "i", "kh", "dj",
                    "d", "k", "h", "g", "f", "x">>
    IN  [i \in 0..(Len(labels) - 1) |-> labels[i + 1]]

\* The array bound to ID_TO_PHONEME (Python index i is element i + 1 of the
\* tuple).
IdToPhonemeLiteral ==
    LET labels == <<"n", "w", "s", "sh", "A", "t", "H", "r",
                    "m", "a", "y", "b", "p", "i", "kh", "dj",
                    "d", "k", "x", "g", "f", "h">>
    IN  [i \in 0..(Len(labels) - 1) |-> labels[i + 1]]

\* Mutant: the core table left at an older lexicon, with CHARGE for w.
CoreVerbTableLiteral_stale ==
    LET verbs == <<"INTEGRATE", "CHARGE", "EMERGE", "DIRECT", "LEAD", "READ", "EXPRESS", "SHINE",
                   "TRUE", "HONOUR", "DEVOTE", "RECEIVE", "STORE", "BESTOW", "EMBODY", "DISCERN",
                   "DO", "CYCLE", "FUNDAMENT", "GROUND", "BREATHE", "SEE">>
    IN  [i \in 0..(Len(verbs) - 1) |-> verbs[i + 1]]

\* The array bound to CORE_VERB_TABLE.
CoreVerbTableLiteral ==
    LET verbs == <<"INTEGRATE", "RADIATE", "EMERGE", "DIRECT", "LEAD", "READ", "EXPRESS", "SHINE",
                   "TRUE", "HONOUR", "DEVOTE", "RECEIVE", "STORE", "BESTOW", "EMBODY", "DISCERN",
                   "DO", "CYCLE", "FUNDAMENT", "GROUND", "BREATHE", "SEE">>
    IN  [i \in 0..(Len(verbs) - 1) |-> verbs[i + 1]]

\* Verb data: phoneme_id -> <<eq_m, min_m, max_m, eq_f, min_f, max_f>>
_VERB_DATA ==
    ID_N  :> <<"INTEGRATE", "FRAGMENT", "FUSE", "WEAVE", "UNRAVEL", "INTERLOCK">> @@
    ID_W  :> <<"RADIATE", "CONTAIN", "FLOOD", "FLOW", "STAGNATE", "CIRCULATE">> @@
    ID_S  :> <<"EMERGE", "REGRESS", "BURST", "CRYSTALLISE", "EXPOSE", "ENCASE">> @@
    ID_SH :> <<"DIRECT", "SCATTER", "COMMAND", "ALIGN", "DRIFT", "ORIENT">> @@
    ID_A  :> <<"LEAD", "ABANDON", "DRIVE", "TEND", "NEGLECT", "NURTURE">> @@
    ID_T  :> <<"READ", "MISREAD", "DECODE", "ETCH", "ERASE", "INSCRIBE">> @@
    ID_H  :> <<"EXPRESS", "SUPPRESS", "PROCLAIM", "INTERPRET", "MISREAD", "COMPREHEND">> @@
    ID_R  :> <<"SHINE", "DIM", "BLAZE", "BASK", "SHADE", "ABSORB">> @@
    ID_M  :> <<"TRUE", "FALSIFY", "VERIFY", "TRUST", "DOUBT", "BELIEVE">> @@
    ID_AA :> <<"HONOUR", "DISHONOUR", "REVERE", "ALLOW", "BLOCK", "PERMIT">> @@
    ID_Y  :> <<"DEVOTE", "BETRAY", "CONSECRATE", "RESTORE", "NEGLECT", "HEAL">> @@
    ID_B  :> <<"RECEIVE", "REFUSE", "ENGULF", "CULTIVATE", "DEPLETE", "NOURISH">> @@
    ID_P  :> <<"STORE", "SCATTER", "HOARD", "GATHER", "DISPERSE", "COLLECT">> @@
    ID_I  :> <<"BESTOW", "WITHHOLD", "GIFT", "PROTECT", "EXPOSE", "GUARD">> @@
    ID_KH :> <<"EMBODY", "FUMBLE", "MASTER", "CAPACITY", "NUMB", "DEFT">> @@
    ID_DJ :> <<"DISCERN", "CONFUSE", "PERCEIVE", "ACT", "HESITATE", "EXECUTE">> @@
    ID_D  :> <<"DO", "STALL", "FORCE", "MIDWIFE", "WAIT", "COMPLETE">> @@
    ID_K  :> <<"CYCLE", "HALT", "ACCELERATE", "RETURN", "REST", "REUNITE">> @@
    ID_X  :> <<"FUNDAMENT", "DISSOLVE", "PETRIFY", "FOUNDATION", "RELEASE", "ANCHOR">> @@
    ID_G  :> <<"GROUND", "FLOAT", "SINK", "STABILIZE", "UNROOT", "ANCHOR">> @@
    ID_F  :> <<"BREATHE", "CHOKE", "FLOOD", "FLOW", "STILL", "SURGE">> @@
    ID_HH :> <<"SEE", "BLIND", "PIERCE", "WITNESS", "IGNORE", "BEHOLD">>

(***************************************************************************)
(* The string-based lexicon (engine.py).                                   *)
(***************************************************************************)
PHONEME_HOURGLASSES ==
    "n"  :> [phoneme |-> "n", equilibrium_masc |-> "INTEGRATE", equilibrium_fem |-> "WEAVE",
            min_masc |-> "FRAGMENT", max_masc |-> "FUSE", min_fem |-> "UNRAVEL", max_fem |-> "INTERLOCK"] @@
    "w"  :> [phoneme |-> "w", equilibrium_masc |-> "RADIATE", equilibrium_fem |-> "FLOW",
            min_masc |-> "CONTAIN", max_masc |-> "FLOOD", min_fem |-> "STAGNATE", max_fem |-> "CIRCULATE"] @@
    "s"  :> [phoneme |-> "s", equilibrium_masc |-> "EMERGE", equilibrium_fem |-> "CRYSTALLISE",
            min_masc |-> "REGRESS", max_masc |-> "BURST", min_fem |-> "EXPOSE", max_fem |-> "ENCASE"] @@
    "sh" :> [phoneme |-> "sh", equilibrium_masc |-> "DIRECT", equilibrium_fem |-> "ALIGN",
            min_masc |-> "SCATTER", max_masc |-> "COMMAND", min_fem |-> "DRIFT", max_fem |-> "ORIENT"] @@
    "A"  :> [phoneme |-> "A", equilibrium_masc |-> "LEAD", equilibrium_fem |-> "TEND",
            min_masc |-> "ABANDON", max_masc |-> "DRIVE", min_fem |-> "NEGLECT", max_fem |-> "NURTURE"] @@
    "t"  :> [phoneme |-> "t", equilibrium_masc |-> "READ", equilibrium_fem |-> "ETCH",
            min_masc |-> "MISREAD", max_masc |-> "DECODE", min_fem |-> "ERASE", max_fem |-> "INSCRIBE"] @@
    "H"  :> [phoneme |-> "H", equilibrium_masc |-> "EXPRESS", equilibrium_fem |-> "INTERPRET",
            min_masc |-> "SUPPRESS", max_masc |-> "PROCLAIM", min_fem |-> "MISREAD", max_fem |-> "COMPREHEND"] @@
    "r"  :> [phoneme |-> "r", equilibrium_masc |-> "SHINE", equilibrium_fem |-> "BASK",
            min_masc |-> "DIM", max_masc |-> "BLAZE", min_fem |-> "SHADE", max_fem |-> "ABSORB"] @@
    "m"  :> [phoneme |-> "m", equilibrium_masc |-> "TRUE", equilibrium_fem |-> "TRUST",
            min_masc |-> "FALSIFY", max_masc |-> "VERIFY", min_fem |-> "DOUBT", max_fem |-> "BELIEVE"] @@
    "a"  :> [phoneme |-> "a", equilibrium_masc |-> "HONOUR", equilibrium_fem |-> "ALLOW",
            min_masc |-> "DISHONOUR", max_masc |-> "REVERE", min_fem |-> "BLOCK", max_fem |-> "PERMIT"] @@
    "y"  :> [phoneme |-> "y", equilibrium_masc |-> "DEVOTE", equilibrium_fem |-> "RESTORE",
            min_masc |-> "BETRAY", max_masc |-> "CONSECRATE", min_fem |-> "NEGLECT", max_fem |-> "HEAL"] @@
    "b"  :> [phoneme |-> "b", equilibrium_masc |-> "RECEIVE", equilibrium_fem |-> "CULTIVATE",
            min_masc |-> "REFUSE", max_masc |-> "ENGULF", min_fem |-> "DEPLETE", max_fem |-> "NOURISH"] @@
    "p"  :> [phoneme |-> "p", equilibrium_masc |-> "STORE", equilibrium_fem |-> "GATHER",
            min_masc |-> "SCATTER", max_masc |-> "HOARD", min_fem |-> "DISPERSE", max_fem |-> "COLLECT"] @@
    "i"  :> [phoneme |-> "i", equilibrium_masc |-> "BESTOW", equilibrium_fem |-> "PROTECT",
            min_masc |-> "WITHHOLD", max_masc |-> "GIFT", min_fem |-> "EXPOSE", max_fem |-> "GUARD"] @@
    "kh" :> [phoneme |-> "kh", equilibrium_masc |-> "EMBODY", equilibrium_fem |-> "CAPACITY",
            min_masc |-> "FUMBLE", max_masc |-> "MASTER", min_fem |-> "NUMB", max_fem |-> "DEFT"] @@
    "dj" :> [phoneme |-> "dj", equilibrium_masc |-> "DISCERN", equilibrium_fem |-> "ACT",
            min_masc |-> "CONFUSE", max_masc |-> "PERCEIVE", min_fem |-> "HESITATE", max_fem |-> "EXECUTE"]

SPINE_HOURGLASSES ==
    "d"  :> [phoneme |-> "d", equilibrium_masc |-> "DO", equilibrium_fem |-> "MIDWIFE",
            min_masc |-> "STALL", max_masc |-> "FORCE", min_fem |-> "WAIT", max_fem |-> "COMPLETE"] @@
    "k"  :> [phoneme |-> "k", equilibrium_masc |-> "CYCLE", equilibrium_fem |-> "RETURN",
            min_masc |-> "HALT", max_masc |-> "ACCELERATE", min_fem |-> "REST", max_fem |-> "REUNITE"] @@
    "h"  :> [phoneme |-> "h", equilibrium_masc |-> "SEE", equilibrium_fem |-> "WITNESS",
            min_masc |-> "BLIND", max_masc |-> "PIERCE", min_fem |-> "IGNORE", max_fem |-> "BEHOLD"] @@
    "g"  :> [phoneme |-> "g", equilibrium_masc |-> "GROUND", equilibrium_fem |-> "STABILIZE",
            min_masc |-> "FLOAT", max_masc |-> "SINK", min_fem |-> "UNROOT", max_fem |-> "ANCHOR"] @@
    "f"  :> [phoneme |-> "f", equilibrium_masc |-> "BREATHE", equilibrium_fem |-> "FLOW",
            min_masc |-> "CHOKE", max_masc |-> "FLOOD", min_fem |-> "STILL", max_fem |-> "SURGE"] @@
    "x"  :> [phoneme |-> "x", equilibrium_masc |-> "FUNDAMENT", equilibrium_fem |-> "FOUNDATION",
            min_masc |-> "DISSOLVE", max_masc |-> "PETRIFY", min_fem |-> "RELEASE", max_fem |-> "ANCHOR"]

\* How the engine's Mode and Pole name the bits of an address
\* (tests/test_bitwise.py, TestConsistencyWithEngine).
mode_bit(mode) == IF mode = "masc" THEN MODE_MASC ELSE MODE_FEM
pole_bit(pole) == IF pole = "eq" THEN POLE_EQ ELSE IF pole = "min" THEN POLE_MIN ELSE POLE_MAX

ALL_HOURGLASSES == PHONEME_HOURGLASSES @@ SPINE_HOURGLASSES

\* enum Mode / enum Pole, by their values
Modes == {"masc", "fem"}
Poles == {"min", "eq", "max"}

\* Mutant: one equilibrium shared by both modes.
get_meaning_shared_eq(self, mode, pole) ==
    IF pole = "eq"
    THEN self.equilibrium_masc
    ELSE IF mode = "masc"
    THEN (IF pole = "min" THEN self.min_masc ELSE self.max_masc)
    ELSE (IF pole = "min" THEN self.min_fem ELSE self.max_fem)

\* Hourglass.get_meaning(self, mode, pole)
get_meaning(self, mode, pole) ==
    IF pole = "eq"
    THEN (IF mode = "masc" THEN self.equilibrium_masc ELSE self.equilibrium_fem)
    ELSE IF mode = "masc"
    THEN (IF pole = "min" THEN self.min_masc ELSE self.max_masc)
    ELSE (IF pole = "min" THEN self.min_fem ELSE self.max_fem)

(***************************************************************************)
(* Python integer operators on non-negative ints.                          *)
(***************************************************************************)
\* x << k
Shl(x, k) == x * (2 ^ k)

\* x >> k
Shr(x, k) == x \div (2 ^ k)

RECURSIVE BitOr(_, _)
\* x | y
BitOr(x, y) ==
    IF x = 0 THEN y
    ELSE IF y = 0 THEN x
    ELSE (IF x % 2 = 1 \/ y % 2 = 1 THEN 1 ELSE 0) + 2 * BitOr(x \div 2, y \div 2)

RECURSIVE BitAnd(_, _)
\* x & y
BitAnd(x, y) ==
    IF x = 0 \/ y = 0 THEN 0
    ELSE (IF x % 2 = 1 /\ y % 2 = 1 THEN 1 ELSE 0) + 2 * BitAnd(x \div 2, y \div 2)

\* What a call did: returned val, or raised the exception named by val.
Ok(v) == [ok |-> TRUE, val |-> v]
Raise(e) == [ok |-> FALSE, val |-> e]

(***************************************************************************)
(* Encoding between phoneme strings and ids.  A dict lookup of a missing   *)
(* key raises KeyError, and the list comprehension around it then builds   *)
(* nothing; a numpy index past the end raises IndexError.                  *)
(***************************************************************************)
\* Mutant: unknown labels skipped instead of raising.
encode_phonemes_skip_unknown(phonemes) ==
    Ok(SelectSeq([k \in 1..Len(phonemes) |->
                    IF phonemes[k] \in DOMAIN PHONEME_TO_ID
                    THEN PHONEME_TO_ID[phonemes[k]] ELSE 0 - 1],
                 LAMBDA id : id >= 0))

encode_phonemes(phonemes) ==
    IF \E k \in 1..Len(phonemes) : phonemes[k] \notin DOMAIN PHONEME_TO_ID
    THEN Raise("KeyError")
    ELSE Ok([k \in 1..Len(phonemes) |-> PHONEME_TO_ID[phonemes[k]]])

decode_ids(ids) ==
    IF \E k \in 1..Len(ids) : ids[k] \notin DOMAIN ID_TO_PHONEME
    THEN Raise("IndexError")
    ELSE Ok([k \in 1..Len(ids) |-> ID_TO_PHONEME[ids[k]]])

(***************************************************************************)
(* Classification.                                                         *)
(***************************************************************************)
is_wheel(phoneme_id) == BitAnd(phoneme_id, SPINE_BIT) = 0

\* Mutant: the masked bit compared with 1 instead of with 0.
is_spine_eq_one(phoneme_id) == BitAnd(phoneme_id, SPINE_BIT) = 1

is_spine(phoneme_id) == BitAnd(phoneme_id, SPINE_BIT) # 0

\* (ids & SPINE_BIT) == 0, element by element
is_wheel_array(ids) == [k \in 1..Len(ids) |-> BitAnd(ids[k], SPINE_BIT) = 0]

\* (ids & SPINE_BIT) != 0, element by element
is_spine_array(ids) == [k \in 1..Len(ids) |-> BitAnd(ids[k], SPINE_BIT) # 0]

(***************************************************************************)
(* Address codec.                                                          *)
(***************************************************************************)
\* Mutant: the mode bit shifted to bit 1 instead of bit 2.
semantic_address_mode_bit1(phoneme_id, mode, pole) ==
    BitOr(BitOr(Shl(phoneme_id, 3), Shl(mode, 1)), pole)

semantic_address(phoneme_id, mode, pole) ==
    BitOr(BitOr(Shl(phoneme_id, 3), Shl(mode, 2)), pole)

address_to_components(address) ==
    <<Shr(address, 3), BitAnd(Shr(address, 2), 1), BitAnd(address, 3)>>

(***************************************************************************)
(* Construction of VERB_TABLE: one iteration of                            *)
(*   for phoneme_id, verbs in _VERB_DATA.items(): ...                      *)
(* The dict is in insertion order, ids 0, 1, ..., 21, so the iteration     *)
(* that runs after `loaded` iterations handles phoneme_id = loaded.        *)
(***************************************************************************)
\* Mutant: the feminine maximum stored under pole bits 3.
StoreVerbs_max_fem_at_7(table, phoneme_id) ==
    LET verbs == _VERB_DATA[phoneme_id]
    IN  [table EXCEPT
            ![BitOr(Shl(phoneme_id, 3), EQ_MASC)]  = verbs[1],
            ![BitOr(Shl(phoneme_id, 3), MIN_MASC)] = verbs[2],
            ![BitOr(Shl(phoneme_id, 3), MAX_MASC)] = verbs[3],
            ![BitOr(Shl(phoneme_id, 3), EQ_FEM)]   = verbs[4],
            ![BitOr(Shl(phoneme_id, 3), MIN_FEM)]  = verbs[5],
            ![BitOr(Shl(phoneme_id, 3), 7)]        = verbs[6]]

StoreVerbs(table, phoneme_id) ==
    LET verbs == _VERB_DATA[phoneme_id]
    IN  [table EXCEPT
            ![BitOr(Shl(phoneme_id, 3), EQ_MASC)]  = verbs[1],
            ![BitOr(Shl(phoneme_id, 3), MIN_MASC)] = verbs[2],
            ![BitOr(Shl(phoneme_id, 3), MAX_MASC)] = verbs[3],
            ![BitOr(Shl(phoneme_id, 3), EQ_FEM)]   = verbs[4],
            ![BitOr(Shl(phoneme_id, 3), MIN_FEM)]  = verbs[5],
            ![BitOr(Shl(phoneme_id, 3), MAX_FEM)]  = verbs[6]]

(***************************************************************************)
(* Layered decode.  phoneme_ids is a uint8 array (a sequence here; Python  *)
(* index i is element i + 1).  VERB_TABLE[addresses] is numpy fancy        *)
(* indexing: it raises IndexError when any address is past the table and   *)
(* otherwise returns one string per address.                               *)
(***************************************************************************)
\* Mutant: the pole given to the odd positions.
use_pole_odd(i) == BitAnd(i, 1) = 1

\* use_pole = (indices & 1) == 0, at Python index i
use_pole(i) == BitAnd(i, 1) = 0

\* Mutant: the Core branch reading the feminine equilibrium.
core_addresses_fem(phoneme_ids) ==
    [k \in 1..Len(phoneme_ids) |-> BitOr(Shl(phoneme_ids[k], 3), EQ_FEM)]

\* addresses of the Core branch: (phoneme_ids.astype(np.int32) << 3) | Pos.EQ_MASC
core_addresses(phoneme_ids) ==
    [k \in 1..Len(phoneme_ids) |-> BitOr(Shl(phoneme_ids[k], 3), EQ_MASC)]

\* addresses of the other branch, from the layer's position bits
layer_addresses(phoneme_ids, layer_pos) ==
    LET layer_mode  == BitAnd(Shr(layer_pos, 2), 1)
        layer_pole  == BitAnd(layer_pos, POLE_MASK)
        poles(i)    == IF use_pole(i) THEN layer_pole ELSE POLE_EQ
        pos_bits(i) == BitOr(Shl(layer_mode, 2), poles(i))
    IN  [k \in 1..Len(phoneme_ids) |-> BitOr(Shl(phoneme_ids[k], 3), pos_bits(k - 1))]

decode_layer(phoneme_ids, layer) ==
    IF layer \notin 0..(Len(LAYER_POS) - 1)
    THEN Raise("IndexError")
    ELSE
      LET layer_pos == LAYER_POS[layer + 1]
          addresses ==
              IF layer = CORE
              THEN core_addresses(phoneme_ids)
              ELSE layer_addresses(phoneme_ids, layer_pos)
      IN  IF \E k \in DOMAIN addresses : addresses[k] >= VERB_TABLE_SIZE
          THEN Raise("IndexError")
          ELSE Ok([k \in DOMAIN addresses |-> VERB_TABLE[addresses[k]]])

\* Mutant: the masculine layers listed before the feminine ones.
decode_all_layers_masc_first(phoneme_ids) ==
    LET order  == <<CORE, M1, M2, F1, F2>>
        layers == [n \in 1..5 |-> decode_layer(phoneme_ids, order[n])]
    IN  IF \E n \in 1..5 : ~layers[n].ok
        THEN Raise("IndexError")
        ELSE Ok([n \in 1..5 |-> layers[n].val])

\* [decode_layer(phoneme_ids, layer) for layer in range(5)]: the first layer
\* that raises ends the comprehension.
decode_all_layers(phoneme_ids) ==
    LET layers == [layer \in 0..4 |-> decode_layer(phoneme_ids, layer)]
        failed == {layer \in 0..4 : ~layers[layer].ok}
    IN  IF failed # {}
        THEN layers[CHOOSE layer \in failed : \A other \in failed : layer <= other]
        ELSE Ok([k \in 1..5 |-> layers[k - 1].val])

\* LayeredResult(core=layers[0], ..., m2=layers[4], phoneme_ids=phoneme_ids)
decode_layered(phoneme_ids) ==
    LET layers == decode_all_layers(phoneme_ids)
    IN  IF ~layers.ok
        THEN layers
        ELSE Ok([core |-> layers.val[1], f1 |-> layers.val[2], f2 |-> layers.val[3],
                 m1 |-> layers.val[4], m2 |-> layers.val[5],
                 phoneme_ids |-> phoneme_ids])

\* CORE_VERB_TABLE[ids].tolist()
phonemes_to_verbs_fast(phonemes) ==
    LET ids == encode_phonemes(phonemes)
    IN  IF ~ids.ok
        THEN ids
        ELSE IF \E k \in 1..Len(ids.val) : ids.val[k] \notin DOMAIN CORE_VERB_TABLE
        THEN Raise("IndexError")
        ELSE Ok([k \in 1..Len(ids.val) |-> CORE_VERB_TABLE[ids.val[k]]])

decode_text(phonemes) ==
    LET ids == encode_phonemes(phonemes)
    IN  IF ~ids.ok THEN ids ELSE decode_layered(ids.val)

(***************************************************************************)
(* Python float arithmetic used by relation_to_pair.  A float is kept as   *)
(* a dyadic rational <<m, d>> = m / d with d a power of two and m a        *)
(* significand of MantissaBits bits; FloatSqrt rounds to nearest, as IEEE  *)
(* 754 does with 53 bits.  The floor taken of the root can only be wrong   *)
(* when rounding carries the root up onto an odd integer k.  Such a k is   *)
(* representable at either precision, and if it is the nearest 53-bit      *)
(* float to the root it is also the nearest MantissaBits-bit float, so a   *)
(* floor that is right with MantissaBits bits is right with 53.            *)
(***************************************************************************)
RECURSIVE Exp4(_)
\* The e with 4^e <= n < 4^(e+1), n >= 1: the binary exponent of sqrt(n).
Exp4(n) == IF n < 4 THEN 0 ELSE 1 + Exp4(n \div 4)

RECURSIVE ISqrtBetween(_, _, _)
\* The largest r in lo..hi with r*r <= n.
ISqrtBetween(n, lo, hi) ==
    IF lo >= hi THEN lo
    ELSE LET mid == (lo + hi + 1) \div 2
         IN  IF mid * mid <= n
             THEN ISqrtBetween(n, mid, hi)
             ELSE ISqrtBetween(n, lo, mid - 1)

\* n ** 0.5 for an int n >= 1, rounded to nearest.
FloatSqrt(n) ==
    LET e == Exp4(n)
        d == 2 ^ (MantissaBits - 1 - e)
        scaled == n * d * d
        r == ISqrtBetween(scaled, 2 ^ (MantissaBits - 1), 2 ^ MantissaBits - 1)
        m == IF scaled - r * r > r THEN r + 1 ELSE r
    IN  <<m, d>>

\* -1 + x (exact for x >= 1: the result is a multiple of x's last place)
FloatMinusOne(x) == <<x[1] - x[2], x[2]>>

\* int(x // 2)
FloatFloorDiv2(x) == x[1] \div (2 * x[2])

\* engine.triangular: T(n) = n(n+1)/2
triangular(n) == (n * (n + 1)) \div 2

(***************************************************************************)
(* Relation encoding.                                                      *)
(***************************************************************************)
\* Mutant: the canonical ordering (the swap) left out.
relation_index_no_swap(a, b) == Shr(b * (b + 1), 1) + a

\* Mutant: T(b - 1) in place of T(b).
relation_index_prev_row(a, b) ==
    LET lo == IF a > b THEN b ELSE a
        hi == IF a > b THEN a ELSE b
    IN  Shr(hi * (hi - 1), 1) + lo

relation_index(a, b) ==
    LET lo == IF a > b THEN b ELSE a
        hi == IF a > b THEN a ELSE b
    IN  Shr(hi * (hi + 1), 1) + lo

\* Mutant: the + 1 under the square root left out.
relation_to_pair_no_plus_one(index) ==
    IF 8 * index < 0
    THEN Raise("TypeError")
    ELSE LET b == IF index = 0
                  THEN 0 - 1      \* int((-1 + 0.0) // 2)
                  ELSE FloatFloorDiv2(FloatMinusOne(FloatSqrt(8 * index)))
             a == index - Shr(b * (b + 1), 1)
         IN  Ok(<<a, b>>)

\* A negative base under ** 0.5 is a complex number, and complex // int
\* raises TypeError.
relation_to_pair(index) ==
    IF 1 + 8 * index < 0
    THEN Raise("TypeError")
    ELSE LET b == FloatFloorDiv2(FloatMinusOne(FloatSqrt(1 + 8 * index)))
             a == index - Shr(b * (b + 1), 1)
         IN  Ok(<<a, b>>)

(***************************************************************************)
(* Grammar encoding.                                                       *)
(***************************************************************************)
\* Mutant: the wheel size in place of the number of relations.
grammar_index_wheel(scale, relation) == scale * NUM_WHEEL + relation

grammar_index(scale, relation) == scale * NUM_WHEEL_RELATIONS + relation

\* Mutant: the grammar split at 135 instead of 136.
grammar_to_components_135(index) ==
    <<index \div (NUM_WHEEL_RELATIONS - 1), index % (NUM_WHEEL_RELATIONS - 1)>>

grammar_to_components(index) ==
    <<index \div NUM_WHEEL_RELATIONS, index % NUM_WHEEL_RELATIONS>>

(***************************************************************************)
(* The string-based decoders (engine.py, mapping.py, pyramid.py).  They    *)
(* work on phoneme labels, with dicts keyed by label; an Optional value is *)
(* None or Some(v).                                                        *)
(***************************************************************************)
None == [some |-> FALSE]
Some(v) == [some |-> TRUE, val |-> v]

\* engine.WHEEL_PHONEMES
WHEEL_PHONEMES ==
    <<"n", "w", "s", "sh", "A", "t", "H", "r",
      "m", "a", "y", "b", "p", "i", "kh", "dj">>

\* mapping.WHEEL_VERBS
WHEEL_VERBS ==
    "n" :> "INTEGRATE" @@ "w" :> "RADIATE" @@ "s" :> "EMERGE" @@ "sh" :> "DIRECT" @@
    "A" :> "LEAD" @@ "t" :> "READ" @@ "H" :> "EXPRESS" @@ "r" :> "SHINE" @@
    "m" :> "TRUE" @@ "a" :> "HONOUR" @@ "y" :> "DEVOTE" @@ "b" :> "RECEIVE" @@
    "p" :> "STORE" @@ "i" :> "BESTOW" @@ "kh" :> "EMBODY" @@ "dj" :> "DISCERN"

\* mapping.SPINE_VERBS
SPINE_VERBS ==
    "x" :> "FUNDAMENT" @@ "d" :> "DO" @@ "k" :> "CYCLE" @@
    "g" :> "GROUND" @@ "f" :> "BREATHE" @@ "h" :> "SEE"

\* Mutant: the wheel verbs alone, without the spine.
ALL_VERBS_wheel_only == WHEEL_VERBS

\* mapping.ALL_VERBS = {**WHEEL_VERBS, **SPINE_VERBS}: the later dict wins.
ALL_VERBS == SPINE_VERBS @@ WHEEL_VERBS

\* the f-string f'?{p}'
unknown_mark(p) == "?" \o p

\* mapping.phonemes_to_verbs: [ALL_VERBS.get(p, f'?{p}') for p in phonemes]
mapping_phonemes_to_verbs(phonemes) ==
    [k \in 1..Len(phonemes) |->
        IF phonemes[k] \in DOMAIN ALL_VERBS
        THEN ALL_VERBS[phonemes[k]] ELSE unknown_mark(phonemes[k])]

\* engine.get_hourglass: ALL_HOURGLASSES.get(phoneme)
get_hourglass(phoneme) ==
    IF phoneme \in DOMAIN ALL_HOURGLASSES THEN Some(ALL_HOURGLASSES[phoneme]) ELSE None

\* Hourglass.core_verb
core_verb(self) == self.equilibrium_masc

\* Mutant: an unknown phoneme marked by a bare '?'.
get_core_verb_bare_mark(phoneme) ==
    LET hg == get_hourglass(phoneme)
    IN  IF hg.some THEN core_verb(hg.val) ELSE "?"

\* engine.get_core_verb
get_core_verb(phoneme) ==
    LET hg == get_hourglass(phoneme)
    IN  IF hg.some THEN core_verb(hg.val) ELSE unknown_mark(phoneme)

\* engine.decode_with_mode (scale is accepted and not used)
decode_with_mode(phonemes, mode, pole) ==
    [k \in 1..Len(phonemes) |->
        LET hg == get_hourglass(phonemes[k])
        IN  IF hg.some THEN get_meaning(hg.val, mode, pole)
            ELSE unknown_mark(phonemes[k])]

\* engine.phonemes_to_verbs: [get_core_verb(p) for p in phonemes]
engine_phonemes_to_verbs(phonemes) ==
    [k \in 1..Len(phonemes) |-> get_core_verb(phonemes[k])]

RECURSIVE PairsFrom(_, _)
\* itertools.combinations_with_replacement(pool, 2), from first index i on:
\* the index pairs i <= j in lexicographic order, one row per first index.
PairsFrom(pool, i) ==
    IF i > Len(pool) THEN <<>>
    ELSE [n \in 1..(Len(pool) - i + 1) |-> <<pool[i], pool[i + n - 1]>>]
         \o PairsFrom(pool, i + 1)

RECURSIVE StrictPairsFrom(_, _)
\* itertools.combinations(pool, 2): the index pairs i < j.
StrictPairsFrom(pool, i) ==
    IF i >= Len(pool) THEN <<>>
    ELSE [n \in 1..(Len(pool) - i) |-> <<pool[i], pool[i + n]>>]
         \o StrictPairsFrom(pool, i + 1)

\* Mutant: the pairs taken without replacement.
generate_relations_distinct == StrictPairsFrom(WHEEL_PHONEMES, 1)

\* engine.generate_relations
generate_relations == PairsFrom(WHEEL_PHONEMES, 1)

\* Mutant: the pole given to the odd positions.
get_layered_verb_odd_pole(phoneme, place, mode, pole) ==
    LET hg == get_hourglass(phoneme)
    IN  IF ~hg.some THEN unknown_mark(phoneme)
        ELSE IF ~(place % 2 = 1)
        THEN (IF mode = "masc" THEN hg.val.equilibrium_masc ELSE hg.val.equilibrium_fem)
        ELSE IF mode = "masc"
        THEN (IF pole = "min" THEN hg.val.min_masc ELSE hg.val.max_masc)
        ELSE (IF pole = "min" THEN hg.val.min_fem ELSE hg.val.max_fem)

\* pyramid.get_layered_verb (place is its parameter position)
get_layered_verb(phoneme, place, mode, pole) ==
    LET hg == get_hourglass(phoneme)
        use_pole_here == (place % 2 = 0)
    IN  IF ~hg.some THEN unknown_mark(phoneme)
        ELSE IF ~use_pole_here
        THEN (IF mode = "masc" THEN hg.val.equilibrium_masc ELSE hg.val.equilibrium_fem)
        ELSE IF mode = "masc"
        THEN (IF pole = "min" THEN hg.val.min_masc ELSE hg.val.max_masc)
        ELSE (IF pole = "min" THEN hg.val.min_fem ELSE hg.val.max_fem)

\* pyramid.decode_layered_sequence: the LayeredReading built by the loop
\* (enumerate index i is element i + 1)
decode_layered_sequence(phonemes) ==
    LET known(k) == get_hourglass(phonemes[k]).some
        verb(k)  == unknown_mark(phonemes[k])
        hg(k)    == get_hourglass(phonemes[k]).val
        N        == Len(phonemes)
    IN  [phonemes |-> phonemes,
         core |-> [k \in 1..N |-> IF known(k) THEN hg(k).equilibrium_masc ELSE verb(k)],
         f1 |-> [k \in 1..N |-> IF known(k)
                     THEN get_layered_verb(phonemes[k], k - 1, "fem", "min") ELSE verb(k)],
         f2 |-> [k \in 1..N |-> IF known(k)
                     THEN get_layered_verb(phonemes[k], k - 1, "fem", "max") ELSE verb(k)],
         m1 |-> [k \in 1..N |-> IF known(k)
                     THEN get_layered_verb(phonemes[k], k - 1, "masc", "min") ELSE verb(k)],
         m2 |-> [k \in 1..N |-> IF known(k)
                     THEN get_layered_verb(phonemes[k], k - 1, "masc", "max") ELSE verb(k)]]

(***************************************************************************)
(* rhythm.py: golden-ratio segmentation.  PHI and PHI_INV are Python       *)
(* floats, kept like FloatSqrt's result as dyadic rationals <<m, d>> of    *)
(* MantissaBits significant bits, every operation rounding to nearest.     *)
(* int(remaining * PHI_INV) is the floor of remaining / phi as long as the *)
(* product stays further from an integer than the rounding error of the    *)
(* precision; remaining / phi is never closer to an integer than           *)
(* 1 / (3 * remaining), which is far above both errors for the counts      *)
(* taken here.                                                             *)
(***************************************************************************)
RECURSIVE FloatExp(_, _)
\* The e with 2^e <= num / den < 2^(e+1), for num, den > 0.
FloatExp(num, den) ==
    IF num < den THEN FloatExp(2 * num, den) - 1
    ELSE IF num >= 2 * den THEN FloatExp(num, 2 * den) + 1
    ELSE 0

\* num / den > 0 rounded to the nearest float, ties to even.
FloatRound(num, den) ==
    LET e == FloatExp(num, den)
        d == 2 ^ (MantissaBits - 1 - e)
        q == (num * d) \div den
        r == (num * d) % den
        m == IF 2 * r > den \/ (2 * r = den /\ q % 2 = 1) THEN q + 1 ELSE q
    IN  <<m, d>>

\* n * x for an int n > 0 and a float x > 0
FloatMulInt(n, x) == FloatRound(n * x[1], x[2])

\* int(x) for a float x > 0
FloatToInt(x) == x[1] \div x[2]

\* PHI = (1 + math.sqrt(5)) / 2
PHI ==
    LET root == FloatSqrt(5)
    IN  FloatRound(root[2] + root[1], 2 * root[2])

\* PHI_INV = 1 / PHI
PHI_INV == FloatRound(PHI[2], PHI[1])

\* Mutant: the position set to the segment instead of advanced by it.
phi_iteration_position_reset(rem, pos, bnd) ==
    LET segment == FloatToInt(FloatMulInt(rem, PHI_INV))
    IN  IF segment < 1
        THEN [break |-> TRUE, remaining |-> rem, position |-> pos, boundaries |-> bnd]
        ELSE [break |-> FALSE, remaining |-> rem - segment, position |-> segment,
              boundaries |-> Append(bnd, segment)]

\* One pass through the body of the while loop of detect_phi_boundaries,
\* entered with remaining > 2.
phi_iteration(rem, pos, bnd) ==
    LET segment == FloatToInt(FloatMulInt(rem, PHI_INV))
    IN  IF segment < 1
        THEN [break |-> TRUE, remaining |-> rem, position |-> pos, boundaries |-> bnd]
        ELSE [break |-> FALSE, remaining |-> rem - segment, position |-> pos + segment,
              boundaries |-> Append(bnd, pos + segment)]

RECURSIVE phi_loop(_, _, _)
\* while remaining > 2: ... ; return boundaries
phi_loop(rem, pos, bnd) ==
    IF ~(rem > 2) THEN bnd
    ELSE LET after == phi_iteration(rem, pos, bnd)
         IN  IF after.break THEN after.boundaries
             ELSE phi_loop(after.remaining, after.position, after.boundaries)

\* rhythm.detect_phi_boundaries, run to completion (as segment_by_fibonacci
\* calls it)
detect_phi_boundaries(phoneme_count) ==
    IF phoneme_count <= 1 THEN <<>> ELSE phi_loop(phoneme_count, 0, <<>>)

\* The Python slice seq[lo:hi] with 0 <= lo and any int hi
Slice(seq, lo, hi) ==
    LET n    == Len(seq)
        stop == IF hi < 0 THEN (IF n + hi < 0 THEN 0 ELSE n + hi)
                ELSE IF hi > n THEN n ELSE hi
    IN  IF lo >= stop THEN <<>> ELSE SubSeq(seq, lo + 1, stop)

RECURSIVE cut_at(_, _, _)
\* The for loop of segment_by_fibonacci and the final append: the segments
\* of sequence cut at each boundary in turn, from prev on.
cut_at(sequence, bnd, prev) ==
    IF bnd = <<>> THEN << Slice(sequence, prev, Len(sequence)) >>
    ELSE << Slice(sequence, prev, Head(bnd)) >> \o cut_at(sequence, Tail(bnd), Head(bnd))

\* Mutant: the boundaries limited to max_segments instead of max_segments - 1.
segment_by_fibonacci_one_more(sequence, max_segments) ==
    IF sequence = <<>> THEN <<>>
    ELSE LET found == detect_phi_boundaries(Len(sequence))
             bnd   == Slice(found, 0, max_segments)
         IN  SelectSeq(cut_at(sequence, bnd, 0), LAMBDA seg : seg # <<>>)

\* rhythm.segment_by_fibonacci
segment_by_fibonacci(sequence, max_segments) ==
    IF sequence = <<>> THEN <<>>
    ELSE LET found == detect_phi_boundaries(Len(sequence))
             bnd   == Slice(found, 0, max_segments - 1)
         IN  SelectSeq(cut_at(sequence, bnd, 0), LAMBDA seg : seg # <<>>)

(***************************************************************************)
(* corpus.py and pyramid.py: the corpus file, its single-entry cache and   *)
(* the Pyramid Texts taken from it.  A file is the sequence of its JSON    *)
(* rows; of a row the model keeps the hieroglyphs, which tell the          *)
(* sentences apart, and the two dates, None for an empty field.  Each      *)
(* function is given the state it reads and returns, with its result, the  *)
(* state it leaves: the caches and the files it opened.                    *)
(***************************************************************************)
\* Path(__file__).parent / 'data' / 'tla_earlier_egyptian.json'
DefaultPath == "data/tla_earlier_egyptian.json"

\* A row dated to the reign of Unas, a row dated later, a row without dates.
UnasRow(h)    == [hieroglyphs |-> h, dateNotBefore |-> Some(0 - 2375),
                  dateNotAfter |-> Some(0 - 2345)]
TetiRow(h)    == [hieroglyphs |-> h, dateNotBefore |-> Some(0 - 2345),
                  dateNotAfter |-> Some(0 - 2323)]
UndatedRow(h) == [hieroglyphs |-> h, dateNotBefore |-> None, dateNotAfter |-> None]

\* Sentence(...) as load_tla_corpus builds it from a row
Sentence(row) ==
    [hieroglyphs |-> row.hieroglyphs,
     date_not_before |-> IF row.dateNotBefore.some THEN row.dateNotBefore.val ELSE 0 - 3000,
     date_not_after |-> IF row.dateNotAfter.some THEN row.dateNotAfter.val ELSE 0 - 1500]

\* The sentences appended while reading the file at path p.
ReadSentences(fs, p) == [k \in 1..Len(fs[p]) |-> Sentence(fs[p][k])]

\* What a call leaves behind.
Outcome(r, corpus, corpus_path, pyramid_texts, read) ==
    [result |-> r, _corpus |-> corpus, _corpus_path |-> corpus_path,
     _pyramid_texts |-> pyramid_texts, opened |-> read]

\* Mutant: the cache hit decided without comparing the path.
load_tla_corpus_any_path(path, fs, corpus, corpus_path, pyramid_texts) ==
    LET p == IF path.some THEN path.val ELSE DefaultPath
    IN  IF corpus.some
        THEN Outcome(Ok(corpus.val), corpus, corpus_path, pyramid_texts, <<>>)
        ELSE IF p \notin DOMAIN fs
        THEN Outcome(Raise("FileNotFoundError"), corpus, corpus_path, pyramid_texts, <<>>)
        ELSE LET sentences == ReadSentences(fs, p)
             IN  Outcome(Ok(sentences), Some(sentences), Some(p), pyramid_texts, <<p>>)

\* corpus.load_tla_corpus
load_tla_corpus(path, fs, corpus, corpus_path, pyramid_texts) ==
    LET p == IF path.some THEN path.val ELSE DefaultPath
    IN  IF corpus.some /\ corpus_path = Some(p)
        THEN Outcome(Ok(corpus.val), corpus, corpus_path, pyramid_texts, <<>>)
        ELSE IF p \notin DOMAIN fs
        THEN Outcome(Raise("FileNotFoundError"), corpus, corpus_path, pyramid_texts, <<>>)
        ELSE LET sentences == ReadSentences(fs, p)
             IN  Outcome(Ok(sentences), Some(sentences), Some(p), pyramid_texts, <<p>>)

\* pyramid.get_pyramid_texts
get_pyramid_texts(fs, corpus, corpus_path, pyramid_texts) ==
    IF pyramid_texts.some
    THEN Outcome(Ok(pyramid_texts.val), corpus, corpus_path, pyramid_texts, <<>>)
    ELSE LET loaded_corpus == load_tla_corpus(None, fs, corpus, corpus_path, pyramid_texts)
         IN  IF ~loaded_corpus.result.ok THEN loaded_corpus
             ELSE LET unas == SelectSeq(loaded_corpus.result.val,
                                  LAMBDA s : /\ s.date_not_before = 0 - 2375
                                             /\ s.date_not_after = 0 - 2345)
                  IN  Outcome(Ok(unas), loaded_corpus._corpus, loaded_corpus._corpus_path,
                              Some(unas), loaded_corpus.opened)

\* DecodedLine(index=i, hieroglyphs=s.hieroglyphs, ...): the other fields
\* are copied from the sentence in the same way.
DecodedLine(i, s) == [index |-> i, hieroglyphs |-> s.hieroglyphs]

\* min(a, b)
min(a, b) == IF a <= b THEN a ELSE b

\* The lines built by the loop of decode over range(start, end); texts[i]
\* counts a negative i from the end and raises IndexError past either end.
decoded_lines(texts, start, end) ==
    IF end <= start THEN Ok(<<>>)
    ELSE IF \E i \in start..(end - 1) : i < 0 - Len(texts) \/ i >= Len(texts)
    THEN Raise("IndexError")
    ELSE Ok([k \in 1..(end - start) |->
               LET i == start + k - 1
               IN  DecodedLine(i, texts[(IF i < 0 THEN Len(texts) + i ELSE i) + 1])])

\* Mutant: the guard on start written with > for >=.
decode_start_gt(n, start, fs, corpus, corpus_path, pyramid_texts) ==
    LET got == get_pyramid_texts(fs, corpus, corpus_path, pyramid_texts)
    IN  IF ~got.result.ok THEN got
        ELSE LET texts == got.result.val
             IN  [got EXCEPT !.result =
                     IF start > Len(texts) THEN Raise("ValueError")
                     ELSE decoded_lines(texts, start, min(start + n, Len(texts)))]

\* pyramid.decode (verbose only prints)
decode(n, start, fs, corpus, corpus_path, pyramid_texts) ==
    LET got == get_pyramid_texts(fs, corpus, corpus_path, pyramid_texts)
    IN  IF ~got.result.ok THEN got
        ELSE LET texts == got.result.val
             IN  [got EXCEPT !.result =
                     IF start >= Len(texts) THEN Raise("ValueError")
                     ELSE decoded_lines(texts, start, min(start + n, Len(texts)))]

\* pyramid.decode_range: decode(end - start + 1, start - 1, verbose)
decode_range(start, end, fs, corpus, corpus_path, pyramid_texts) ==
    decode(end - start + 1, start - 1, fs, corpus, corpus_path, pyramid_texts)

\* A second corpus file, and a path at which there is no file.
OtherPath   == "other.json"
MissingPath == "missing.json"

\* The file system of an installed package: the corpus file in the data
\* directory and one other corpus file.
PackagedFiles ==
    DefaultPath :> <<UnasRow("u1"), TetiRow("t1"), UnasRow("u2")>> @@
    OtherPath :> <<UndatedRow("a1"), UnasRow("a2")>>

(***************************************************************************)
(* Inputs of the calls.                                                    *)
(***************************************************************************)
PhonemeIdInputs == 0..(NUM_PHONEMES - 1 + Slack)
ModeInputs      == 0..(MODE_FEM + Slack)
PoleInputs      == 0..(POLE_MAX + Slack)
AddressInputs   == 0..(VERB_TABLE_SIZE - 1)
\* uint8 ids: the valid ones, the first few unwired ones, and the first id
\* whose address is past the table.
ArrayIdInputs   == PhonemeIdInputs \cup {VERB_TABLE_SIZE \div 8}
LayerInputs     == 0..(M2 + Slack)
WheelIdInputs   == 0..(NUM_WHEEL - 1 + Slack)
RelationInputs  == (0 - Slack)..(NUM_WHEEL_RELATIONS - 1 + Slack)
ScaleInputs     == 0..(2 + Slack)
GrammarInputs   == 0..(TOTAL_GRAMMAR - 1 + Slack)
PhonemeInputs   == DOMAIN ALL_HOURGLASSES

\* Labels outside PHONEME_TO_ID: the emphatic variants engine.SPINE_SECONDARY
\* lists.
UnknownLabels   == {"q", "tj"}
LabelInputs     == DOMAIN PhonemeToIdLiteral \cup UnknownLabels

RECURSIVE SeqsUpTo(_, _)
\* All sequences over S of length at most n.
SeqsUpTo(S, n) ==
    IF n = 0 THEN {<<>>}
    ELSE LET shorter == SeqsUpTo(S, n - 1)
         IN  shorter \cup {Append(s, x) : s \in shorter, x \in S}

IdArrays == SeqsUpTo(ArrayIdInputs, MaxLen)

PhonemeLists == SeqsUpTo(LabelInputs, MaxLen)

(***************************************************************************)
(* The state machine.                                                      *)
(***************************************************************************)
\* The import has reached the construction loop: PHONEME_TO_ID and
\* ID_TO_PHONEME are bound, VERB_TABLE holds 256 empty strings, and
\* CORE_VERB_TABLE, assigned after the loop, is not bound yet.
Init ==
    /\ pc = "load"
    /\ loaded = 0
    /\ PHONEME_TO_ID = PhonemeToIdLiteral
    /\ ID_TO_PHONEME = IdToPhonemeLiteral
    /\ VERB_TABLE = [x \in 0..(VERB_TABLE_SIZE - 1) |-> ""]
    /\ CORE_VERB_TABLE = <<>>
    /\ op = "import"
    /\ args = <<>>
    /\ result = Ok(<<>>)
    /\ remaining = 0
    /\ position = 0
    /\ boundaries = <<>>
    /\ files = PackagedFiles
    /\ opened = <<>>
    /\ _corpus = None
    /\ _corpus_path = None
    /\ _pyramid_texts = None

\* One iteration of the table-construction loop at import.
LoadVerbs ==
    /\ pc = "load"
    /\ loaded < NUM_PHONEMES
    /\ VERB_TABLE' = StoreVerbs(VERB_TABLE, loaded)
    /\ loaded' = loaded + 1
    /\ UNCHANGED <<pc, PHONEME_TO_ID, ID_TO_PHONEME, CORE_VERB_TABLE, op, args, result>>
    /\ UNCHANGED elsewhere

\* After the loop: CORE_VERB_TABLE = np.array([...]); the import is complete.
LoadCoreVerbs ==
    /\ pc = "load"
    /\ loaded = NUM_PHONEMES
    /\ CORE_VERB_TABLE' = CoreVerbTableLiteral
    /\ pc' = "ready"
    /\ UNCHANGED <<loaded, PHONEME_TO_ID, ID_TO_PHONEME, VERB_TABLE, op, args, result>>
    /\ UNCHANGED elsewhere

\* Mutant: a call that blanks the table slot of address 0 as it returns.
Call_blanking_slot(name, a, r) ==
    /\ pc = "ready"
    /\ pc' = "returned"
    /\ op' = name
    /\ args' = a
    /\ result' = r
    /\ VERB_TABLE' = [VERB_TABLE EXCEPT ![0] = ""]
    /\ UNCHANGED <<loaded, PHONEME_TO_ID, ID_TO_PHONEME, CORE_VERB_TABLE>>
    /\ UNCHANGED elsewhere

\* A caller invokes a library function: the call runs to completion and
\* leaves what it returned or raised with the caller.
Call(name, a, r) ==
    /\ pc = "ready"
    /\ pc' = "returned"
    /\ op' = name
    /\ args' = a
    /\ result' = r
    /\ UNCHANGED <<loaded, tables>>
    /\ UNCHANGED elsewhere

\* The caller is done with the result and is free to make the next call.
Return ==
    /\ pc = "returned"
    /\ pc' = "ready"
    /\ op' = "import"
    /\ args' = <<>>
    /\ result' = Ok(<<>>)
    /\ opened' = <<>>
    /\ UNCHANGED <<loaded, tables, phi_locals, files, caches>>

SemanticAddress ==
    /\ pc = "ready"
    /\ \E phoneme_id \in PhonemeIdInputs, mode \in ModeInputs, pole \in PoleInputs :
            Call("semantic_address", <<phoneme_id, mode, pole>>,
             Ok(semantic_address(phoneme_id, mode, pole)))

AddressToComponents ==
    /\ pc = "ready"
    /\ \E address \in AddressInputs :
            Call("address_to_components", <<address>>, Ok(address_to_components(address)))

DecodeLayer ==
    /\ pc = "ready"
    /\ \E phoneme_ids \in IdArrays, layer \in LayerInputs :
            Call("decode_layer", <<phoneme_ids, layer>>, decode_layer(phoneme_ids, layer))

RelationIndex ==
    /\ pc = "ready"
    /\ \E a \in WheelIdInputs, b \in WheelIdInputs :
            Call("relation_index", <<a, b>>, Ok(relation_index(a, b)))

RelationToPair ==
    /\ pc = "ready"
    /\ \E index \in RelationInputs :
            Call("relation_to_pair", <<index>>, relation_to_pair(index))

GrammarIndex ==
    /\ pc = "ready"
    /\ \E scale \in ScaleInputs, relation \in RelationInputs :
            Call("grammar_index", <<scale, relation>>, Ok(grammar_index(scale, relation)))

GrammarToComponents ==
    /\ pc = "ready"
    /\ \E index \in GrammarInputs :
            Call("grammar_to_components", <<index>>, Ok(grammar_to_components(index)))

\* VERB_TABLE[address], a numpy array indexed by one int
VerbLookup ==
    /\ pc = "ready"
    /\ \E address \in 0..(VERB_TABLE_SIZE - 1 + Slack) :
            Call("VERB_TABLE[]", <<address>>,
                 IF address \in DOMAIN VERB_TABLE
                 THEN Ok(VERB_TABLE[address]) ELSE Raise("IndexError"))

EncodePhonemes ==
    /\ pc = "ready"
    /\ \E phonemes \in PhonemeLists :
            Call("encode_phonemes", <<phonemes>>, encode_phonemes(phonemes))

DecodeIds ==
    /\ pc = "ready"
    /\ \E ids \in IdArrays :
            Call("decode_ids", <<ids>>, decode_ids(ids))

IsWheel ==
    /\ pc = "ready"
    /\ \E phoneme_id \in PhonemeIdInputs :
            Call("is_wheel", <<phoneme_id>>, Ok(is_wheel(phoneme_id)))

IsSpine ==
    /\ pc = "ready"
    /\ \E phoneme_id \in PhonemeIdInputs :
            Call("is_spine", <<phoneme_id>>, Ok(is_spine(phoneme_id)))

IsWheelArray ==
    /\ pc = "ready"
    /\ \E ids \in IdArrays :
            Call("is_wheel_array", <<ids>>, Ok(is_wheel_array(ids)))

IsSpineArray ==
    /\ pc = "ready"
    /\ \E ids \in IdArrays :
            Call("is_spine_array", <<ids>>, Ok(is_spine_array(ids)))

DecodeAllLayers ==
    /\ pc = "ready"
    /\ \E phoneme_ids \in IdArrays :
            Call("decode_all_layers", <<phoneme_ids>>, decode_all_layers(phoneme_ids))

DecodeLayered ==
    /\ pc = "ready"
    /\ \E phoneme_ids \in IdArrays :
            Call("decode_layered", <<phoneme_ids>>, decode_layered(phoneme_ids))

PhonemesToVerbsFast ==
    /\ pc = "ready"
    /\ \E phonemes \in PhonemeLists :
            Call("phonemes_to_verbs_fast", <<phonemes>>, phonemes_to_verbs_fast(phonemes))

DecodeText ==
    /\ pc = "ready"
    /\ \E phonemes \in PhonemeLists :
            Call("decode_text", <<phonemes>>, decode_text(phonemes))

\* engine.get_hourglass(p).get_meaning(mode, pole)
GetMeaning ==
    /\ pc = "ready"
    /\ \E p \in PhonemeInputs, mode \in Modes, pole \in Poles :
            Call("get_meaning", <<p, mode, pole>>,
             Ok(get_meaning(ALL_HOURGLASSES[p], mode, pole)))

DecodeWithMode ==
    /\ pc = "ready"
    /\ \E phonemes \in PhonemeLists, mode \in Modes, pole \in Poles :
            Call("engine.decode_with_mode", <<phonemes, mode, pole>>,
                 Ok(decode_with_mode(phonemes, mode, pole)))

EnginePhonemesToVerbs ==
    /\ pc = "ready"
    /\ \E phonemes \in PhonemeLists :
            Call("engine.phonemes_to_verbs", <<phonemes>>,
                 Ok(engine_phonemes_to_verbs(phonemes)))

MappingPhonemesToVerbs ==
    /\ pc = "ready"
    /\ \E phonemes \in PhonemeLists :
            Call("mapping.phonemes_to_verbs", <<phonemes>>,
                 Ok(mapping_phonemes_to_verbs(phonemes)))

GetCoreVerb ==
    /\ pc = "ready"
    /\ \E phoneme \in LabelInputs :
            Call("engine.get_core_verb", <<phoneme>>, Ok(get_core_verb(phoneme)))

GenerateRelations ==
    /\ pc = "ready"
    /\ Call("engine.generate_relations", <<>>, Ok(generate_relations))

DecodeLayeredSequence ==
    /\ pc = "ready"
    /\ \E phonemes \in PhonemeLists :
            Call("pyramid.decode_layered_sequence", <<phonemes>>,
                 Ok(decode_layered_sequence(phonemes)))

Next ==
    \/ LoadVerbs
    \/ LoadCoreVerbs
    \/ SemanticAddress
    \/ AddressToComponents
    \/ DecodeLayer
    \/ RelationIndex
    \/ RelationToPair
    \/ GrammarIndex
    \/ GrammarToComponents
    \/ GetMeaning
    \/ VerbLookup
    \/ EncodePhonemes
    \/ DecodeIds
    \/ IsWheel
    \/ IsSpine
    \/ IsWheelArray
    \/ IsSpineArray
    \/ DecodeAllLayers
    \/ DecodeLayered
    \/ PhonemesToVerbsFast
    \/ DecodeText
    \/ DecodeWithMode
    \/ EnginePhonemesToVerbs
    \/ MappingPhonemesToVerbs
    \/ GetCoreVerb
    \/ GenerateRelations
    \/ DecodeLayeredSequence
    \/ Return

Spec == Init /\ [][Next]_vars

(***************************************************************************)
(* The state once the import of the package is complete.                   *)
(***************************************************************************)
RECURSIVE BuildVerbTable(_, _)
\* The construction loop run from phoneme id n to the end.
BuildVerbTable(table, n) ==
    IF n >= NUM_PHONEMES THEN table ELSE BuildVerbTable(StoreVerbs(table, n), n + 1)

Imported ==
    /\ pc = "ready"
    /\ loaded = NUM_PHONEMES
    /\ PHONEME_TO_ID = PhonemeToIdLiteral
    /\ ID_TO_PHONEME = IdToPhonemeLiteral
    /\ VERB_TABLE = BuildVerbTable([x \in 0..(VERB_TABLE_SIZE - 1) |-> ""], 0)
    /\ CORE_VERB_TABLE = CoreVerbTableLiteral
    /\ op = "import"
    /\ args = <<>>
    /\ result = Ok(<<>>)
    /\ remaining = 0
    /\ position = 0
    /\ boundaries = <<>>
    /\ opened = <<>>
    /\ _corpus = None
    /\ _corpus_path = None
    /\ _pyramid_texts = None

(***************************************************************************)
(* rhythm.py as a state machine: detect_phi_boundaries step by step, one   *)
(* action per pass of its loop, and segment_by_fibonacci as one call.      *)
(***************************************************************************)
CountInputs == (0 - Slack)..MaxCount

\* Lists of distinct items, of every length up to MaxCount.
SequenceInputs == {[k \in 1..n |-> k] : n \in 0..MaxCount}

\* max_segments around its default of 5
MaxSegmentsInputs == (1 - Slack)..(5 + Slack)

RhythmInit ==
    /\ Imported
    /\ files = PackagedFiles

\* The call enters detect_phi_boundaries: the early return, or the locals
\* set up before the loop.
DetectPhiBoundaries ==
    /\ pc = "ready"
    /\ \E phoneme_count \in CountInputs :
          /\ op' = "detect_phi_boundaries"
          /\ args' = <<phoneme_count>>
          /\ IF phoneme_count <= 1
             THEN /\ pc' = "returned"
                  /\ result' = Ok(<<>>)
                  /\ UNCHANGED phi_locals
             ELSE /\ pc' = "phi_loop"
                  /\ remaining' = phoneme_count
                  /\ position' = 0
                  /\ boundaries' = <<>>
                  /\ UNCHANGED result
    /\ UNCHANGED <<loaded, tables, files, opened, caches>>

\* One pass of the while loop.
PhiIterate ==
    /\ pc = "phi_loop"
    /\ remaining > 2
    /\ LET after == phi_iteration(remaining, position, boundaries)
       IN  IF after.break
           THEN /\ pc' = "returned"
                /\ result' = Ok(boundaries)
                /\ remaining' = 0
                /\ position' = 0
                /\ boundaries' = <<>>
           ELSE /\ remaining' = after.remaining
                /\ position' = after.position
                /\ boundaries' = after.boundaries
                /\ UNCHANGED <<pc, result>>
    /\ UNCHANGED <<loaded, tables, op, args, files, opened, caches>>

\* The loop condition fails: return boundaries.
PhiReturn ==
    /\ pc = "phi_loop"
    /\ ~(remaining > 2)
    /\ pc' = "returned"
    /\ result' = Ok(boundaries)
    /\ remaining' = 0
    /\ position' = 0
    /\ boundaries' = <<>>
    /\ UNCHANGED <<loaded, tables, op, args, files, opened, caches>>

SegmentByFibonacci ==
    /\ pc = "ready"
    /\ \E sequence \in SequenceInputs, max_segments \in MaxSegmentsInputs :
            Call("segment_by_fibonacci", <<sequence, max_segments>>,
                 Ok(segment_by_fibonacci(sequence, max_segments)))

RhythmNext ==
    \/ DetectPhiBoundaries
    \/ PhiIterate
    \/ PhiReturn
    \/ SegmentByFibonacci
    \/ Return

\* A call that has started keeps running: the interpreter takes the next
\* step of the loop whenever there is one.
RhythmSpec ==
    RhythmInit /\ [][RhythmNext]_vars /\ WF_vars(PhiIterate) /\ WF_vars(PhiReturn)

(***************************************************************************)
(* corpus.py and pyramid.py as a state machine: calls in any order, each   *)
(* reading and leaving the caches.                                         *)
(***************************************************************************)
\* The corpus files a behaviour may start with: any rows up to MaxCorpus in
\* the default file, beside the other file.
CorpusRows == {UnasRow("u1"), UnasRow("u2"), TetiRow("t1")}

FileSystems ==
    {DefaultPath :> rows @@ OtherPath :> PackagedFiles[OtherPath] :
        rows \in SeqsUpTo(CorpusRows, MaxCorpus)}

PathInputs == {None, Some(DefaultPath), Some(OtherPath), Some(MissingPath)}

LineCountInputs == (0 - Slack)..(MaxCorpus + Slack)
StartInputs     == (0 - Slack)..(MaxCorpus + Slack)
RangeInputs     == 0..(MaxCorpus + 1)

CorpusInit ==
    /\ Imported
    /\ files \in FileSystems

\* A caller invokes a function of corpus.py or pyramid.py: the call runs to
\* completion and leaves its result, the caches and the files it opened.
CorpusCall(name, a, out) ==
    /\ pc = "ready"
    /\ pc' = "returned"
    /\ op' = name
    /\ args' = a
    /\ result' = out.result
    /\ opened' = out.opened
    /\ _corpus' = out._corpus
    /\ _corpus_path' = out._corpus_path
    /\ _pyramid_texts' = out._pyramid_texts
    /\ UNCHANGED <<loaded, tables, phi_locals, files>>

LoadTlaCorpus ==
    /\ pc = "ready"
    /\ \E path \in PathInputs :
            CorpusCall("load_tla_corpus", <<path>>,
                       load_tla_corpus(path, files, _corpus, _corpus_path, _pyramid_texts))

GetPyramidTexts ==
    /\ pc = "ready"
    /\ CorpusCall("get_pyramid_texts", <<>>,
                  get_pyramid_texts(files, _corpus, _corpus_path, _pyramid_texts))

Decode ==
    /\ pc = "ready"
    /\ \E n \in LineCountInputs, start \in StartInputs :
            CorpusCall("decode", <<n, start>>,
                       decode(n, start, files, _corpus, _corpus_path, _pyramid_texts))

DecodeRange ==
    /\ pc = "ready"
    /\ \E start \in RangeInputs, end \in RangeInputs :
            CorpusCall("decode_range", <<start, end>>,
                       decode_range(start, end, files, _corpus, _corpus_path, _pyramid_texts))

CorpusNext ==
    \/ LoadTlaCorpus
    \/ GetPyramidTexts
    \/ Decode
    \/ DecodeRange
    \/ Return

CorpusSpec == CorpusInit /\ [][CorpusNext]_vars

(***************************************************************************)
(* The documented ranges of the inputs.                                    *)
(***************************************************************************)
SymbolIds   == 0..21
ModeBits    == {0, 1}
PoleBits    == {0, 1, 2}
WheelIds    == 0..15
RelationIds == 0..135
ScaleIds    == {0, 1, 2}
CanonicalPairs == {pr \in WheelIds \X WheelIds : pr[1] <= pr[2]}

Returned(name) == pc = "returned" /\ op = name

Min(x, y) == IF x <= y THEN x ELSE y
Max(x, y) == IF x <= y THEN y ELSE x

(***************************************************************************)
(* C1.  Address round trip: for every symbol_id in 0..21, mode in {0,1}    *)
(* and pole in {0,1,2}, decomposing the address that semantic_address      *)
(* returned gives back exactly (symbol_id, mode, pole).                    *)
(***************************************************************************)
C1_AddressRoundTrip ==
    (/\ Returned("semantic_address")
     /\ args[1] \in SymbolIds /\ args[2] \in ModeBits /\ args[3] \in PoleBits)
    => /\ result.ok
       /\ address_to_components(result.val) = args

C1_Witness ==
    /\ Returned("semantic_address")
    /\ args = <<21, 1, 2>>
    /\ result = Ok(174)
    /\ address_to_components(174) = <<21, 1, 2>>

(***************************************************************************)
(* C2.  For every a and b in 0..15, relation_to_pair applied to the index  *)
(* that relation_index(a, b) returned gives (min(a,b), max(a,b)).          *)
(***************************************************************************)
C2_RelationRoundTrip ==
    (/\ Returned("relation_index")
     /\ args[1] \in WheelIds /\ args[2] \in WheelIds)
    => /\ result.ok
       /\ relation_to_pair(result.val) = Ok(<<Min(args[1], args[2]), Max(args[1], args[2])>>)

C2_Witness ==
    /\ Returned("relation_index")
    /\ args = <<12, 3>>
    /\ result = Ok(81)
    /\ relation_to_pair(81) = Ok(<<3, 12>>)

(***************************************************************************)
(* C3.  relation_index restricted to the canonical pairs a <= b of 0..15   *)
(* is a bijection onto 0..135: the index returned for a canonical pair     *)
(* lies in 0..135 and is the index of no other canonical pair, and every   *)
(* integer of 0..135 is the index of some canonical pair.                  *)
(***************************************************************************)
C3_RelationBijection ==
    /\ (/\ Returned("relation_index")
        /\ <<args[1], args[2]>> \in CanonicalPairs)
       => /\ result.ok
          /\ result.val \in RelationIds
          /\ {pr \in CanonicalPairs : relation_index(pr[1], pr[2]) = result.val} = {args}
    /\ Returned("relation_index")
       => {relation_index(pr[1], pr[2]) : pr \in CanonicalPairs} = RelationIds

C3_Witness ==
    /\ Returned("relation_index")
    /\ args = <<15, 15>>
    /\ result = Ok(135)
    /\ Cardinality(CanonicalPairs) = 136

(***************************************************************************)
(* C4.  For every index in 0..135, relation_to_pair returns (a, b) with b  *)
(* the largest integer such that b(b+1)/2 <= index (as a linear search     *)
(* finds it) and a = index - b(b+1)/2, so that 0 <= a <= b <= 15 and       *)
(* relation_index(a, b) = index; the triangular boundaries included.       *)
(***************************************************************************)
\* The largest b with T(b) <= index, by linear search.  T is increasing and
\* T(16) = 136, so for index <= 135 the search over 0..16 finds the largest
\* of all integers.
LinearSearchB(index) ==
    CHOOSE b \in 0..16 :
        /\ triangular(b) <= index
        /\ \A c \in (b + 1)..16 : triangular(c) > index

C4_RelationToPair ==
    (/\ Returned("relation_to_pair")
     /\ args[1] \in RelationIds)
    => /\ result.ok
       /\ LET a == result.val[1]
              b == result.val[2]
          IN  /\ b = LinearSearchB(args[1])
              /\ a = args[1] - triangular(b)
              /\ 0 <= a /\ a <= b /\ b <= 15
              /\ relation_index(a, b) = args[1]

\* index 120 = T(15) is an exact triangular boundary: 1 + 8 * 120 = 31 * 31.
C4_Witness ==
    /\ Returned("relation_to_pair")
    /\ args = <<120>>
    /\ result = Ok(<<0, 15>>)

(***************************************************************************)
(* C5.  For every layer L of F1, F2, M1, M2, with (mode, pole) F1 =        *)
(* (secondary, minimum), F2 = (secondary, maximum), M1 = (primary,         *)
(* minimum), M2 = (primary, maximum), and every sequence of N ids in       *)
(* 0..21, decode_layer returns exactly N strings: element i is the table   *)
(* entry at address (ids[i], mode of L, pole of L) when i is even and at   *)
(* address (ids[i], mode of L, equilibrium) when i is odd.                 *)
(***************************************************************************)
LayerModeBit == (F1 :> 1) @@ (F2 :> 1) @@ (M1 :> 0) @@ (M2 :> 0)
LayerPoleBits == (F1 :> 1) @@ (F2 :> 2) @@ (M1 :> 1) @@ (M2 :> 2)

AllSymbolIds(ids) == \A k \in 1..Len(ids) : ids[k] \in SymbolIds

C5_LayerAlternation ==
    (/\ Returned("decode_layer")
     /\ args[2] \in {F1, F2, M1, M2}
     /\ AllSymbolIds(args[1]))
    => /\ result.ok
       /\ Len(result.val) = Len(args[1])
       /\ \A k \in 1..Len(args[1]) :
            result.val[k] =
                VERB_TABLE[semantic_address(
                    args[1][k], LayerModeBit[args[2]],
                    IF (k - 1) % 2 = 0 THEN LayerPoleBits[args[2]] ELSE 0)]

\* F1 over n, n: the minimum of the secondary mode, then its equilibrium.
C5_Witness ==
    /\ Returned("decode_layer")
    /\ args = <<<<ID_N, ID_N>>, F1>>
    /\ result = Ok(<<"UNRAVEL", "WEAVE">>)

PopulatedSlots == {x \in DOMAIN VERB_TABLE : VERB_TABLE[x] # ""}

C7_TableDensity ==
    pc = "ready"
    => /\ DOMAIN VERB_TABLE = 0..255
       /\ \A x \in 0..255 :
            x \in PopulatedSlots
            <=> \E s \in SymbolIds, m \in ModeBits, p \in PoleBits :
                    x = s * 8 + m * 4 + p
       /\ Cardinality(PopulatedSlots) = 132
       /\ Cardinality((0..255) \ PopulatedSlots) = 124
       /\ \A x \in 0..255 :
            (x % 4 = 3 \/ x \div 8 \in 22..31) => VERB_TABLE[x] = ""

\* The table just built: the last live slot is filled, its neighbour is not.
C7_Witness ==
    /\ pc = "ready"
    /\ loaded = 22
    /\ VERB_TABLE[174] = "BEHOLD"
    /\ VERB_TABLE[175] = ""
    /\ VERB_TABLE[176] = ""

(***************************************************************************)
(* C8.  For each of the 22 phonemes, each mode and each pole, the table    *)
(* entry at semantic_address(PHONEME_TO_ID[p], mode bit, pole bits) is the *)
(* meaning the engine's hourglass for p returns from get_meaning(mode,     *)
(* pole).                                                                  *)
(***************************************************************************)
C8_TableMatchesEngine ==
    Returned("get_meaning")
    => /\ result.ok
       /\ args[1] \in DOMAIN PHONEME_TO_ID
       /\ VERB_TABLE[semantic_address(PHONEME_TO_ID[args[1]],
                                      mode_bit(args[2]), pole_bit(args[3]))]
            = result.val

C8_Witness ==
    /\ Returned("get_meaning")
    /\ args = <<"h", "fem", "eq">>
    /\ result = Ok("WITNESS")
    /\ VERB_TABLE[172] = "WITNESS"

(***************************************************************************)
(* C9.  Grammar round trip: for every scale in {0,1,2} and relation in     *)
(* 0..135, grammar_to_components applied to the index grammar_index        *)
(* returned gives back exactly (scale, relation).                          *)
(***************************************************************************)
C9_GrammarRoundTrip ==
    (/\ Returned("grammar_index")
     /\ args[1] \in ScaleIds /\ args[2] \in RelationIds)
    => /\ result.ok
       /\ grammar_to_components(result.val) = args

C9_Witness ==
    /\ Returned("grammar_index")
    /\ args = <<2, 135>>
    /\ result = Ok(407)
    /\ grammar_to_components(407) = <<2, 135>>

(***************************************************************************)
(* C10.  Over scale in {0,1,2} and relation in 0..135, grammar_index       *)
(* returns scale*136 + relation and is a bijection onto 0..407: no result  *)
(* lies outside 0..407, no two inputs share a result, and every integer    *)
(* of 0..407 is produced.                                                  *)
(***************************************************************************)
C10_GrammarBijection ==
    /\ (/\ Returned("grammar_index")
        /\ args[1] \in ScaleIds /\ args[2] \in RelationIds)
       => /\ result.ok
          /\ result.val = args[1] * 136 + args[2]
          /\ result.val \in 0..407
          /\ {sr \in ScaleIds \X RelationIds : grammar_index(sr[1], sr[2]) = result.val}
                = {args}
    /\ Returned("grammar_index")
       => {grammar_index(sr[1], sr[2]) : sr \in ScaleIds \X RelationIds} = 0..407

C10_Witness ==
    /\ Returned("grammar_index")
    /\ args = <<1, 0>>
    /\ result = Ok(136)
    /\ Cardinality(ScaleIds \X RelationIds) = 408

(***************************************************************************)
(* C11.  Relation symmetry: for every a and b in 0..15 the index returned  *)
(* for (a, b) is the index of (b, a).                                      *)
(***************************************************************************)
C11_RelationSymmetry ==
    (/\ Returned("relation_index")
     /\ args[1] \in WheelIds /\ args[2] \in WheelIds)
    => /\ result.ok
       /\ result.val = relation_index(args[2], args[1])

C11_Witness ==
    /\ Returned("relation_index")
    /\ args = <<5, 0>>
    /\ result = Ok(15)
    /\ relation_index(0, 5) = 15

(***************************************************************************)
(* C12.  For every id in 0..21 exactly one of is_wheel and is_spine holds: *)
(* is_wheel for 0..15, is_spine for 16..21, both decided by bit 4 of the   *)
(* id; the array versions answer the same element by element.              *)
(***************************************************************************)
Bit4(id) == (id \div 16) % 2

C12_Classification ==
    /\ (Returned("is_wheel") /\ args[1] \in SymbolIds)
       => /\ result.val = (args[1] \in 0..15)
          /\ result.val = (Bit4(args[1]) = 0)
          /\ result.val = ~is_spine(args[1])
    /\ (Returned("is_spine") /\ args[1] \in SymbolIds)
       => /\ result.val = (args[1] \in 16..21)
          /\ result.val = (Bit4(args[1]) = 1)
          /\ result.val = ~is_wheel(args[1])
    /\ (Returned("is_wheel_array") /\ AllSymbolIds(args[1]))
       => /\ Len(result.val) = Len(args[1])
          /\ \A k \in 1..Len(args[1]) :
                /\ result.val[k] = is_wheel(args[1][k])
                /\ result.val[k] = ~is_spine(args[1][k])
    /\ (Returned("is_spine_array") /\ AllSymbolIds(args[1]))
       => /\ Len(result.val) = Len(args[1])
          /\ \A k \in 1..Len(args[1]) :
                /\ result.val[k] = is_spine(args[1][k])
                /\ result.val[k] = ~is_wheel(args[1][k])

\* The last wheel id and the first spine id, classified as an array.
C12_Witness ==
    /\ Returned("is_spine_array")
    /\ args = <<<<15, 16>>>>
    /\ result = Ok(<<FALSE, TRUE>>)
    /\ is_wheel(15) /\ is_spine(16)

(***************************************************************************)
(* C13.  For every id in 0..21, CORE_VERB_TABLE[id] is the VERB_TABLE      *)
(* entry at semantic_address(id, primary mode, equilibrium), so            *)
(* phonemes_to_verbs_fast returns the strings decode_layer returns for     *)
(* layer Core on the same input.                                           *)
(***************************************************************************)
AllKnownLabels(phonemes) ==
    \A k \in 1..Len(phonemes) : phonemes[k] \in DOMAIN PHONEME_TO_ID

C13_CoreTable ==
    Returned("phonemes_to_verbs_fast")
    => /\ \A id \in SymbolIds :
            CORE_VERB_TABLE[id] = VERB_TABLE[semantic_address(id, MODE_MASC, POLE_EQ)]
       /\ AllKnownLabels(args[1])
          => /\ result.ok
             /\ result = decode_layer(encode_phonemes(args[1]).val, CORE)

C13_Witness ==
    /\ Returned("phonemes_to_verbs_fast")
    /\ args = <<<<"w", "d">>>>
    /\ result = Ok(<<"RADIATE", "DO">>)
    /\ decode_layer(<<ID_W, ID_D>>, CORE) = Ok(<<"RADIATE", "DO">>)

(***************************************************************************)
(* C14.  semantic_address fails, returning no address, whenever symbol_id  *)
(* is outside 0..21, mode outside {0,1} or pole outside {0,1,2}; it never  *)
(* returns an address that decodes to another (symbol_id, mode, pole) than *)
(* the one passed in.                                                      *)
(***************************************************************************)
C14_EncodeRejectsInvalid ==
    Returned("semantic_address")
    => /\ (args[1] \notin SymbolIds \/ args[2] \notin ModeBits \/ args[3] \notin PoleBits)
          => ~result.ok
       /\ result.ok => address_to_components(result.val) = args

(***************************************************************************)
(* C15.  Looking up an address whose table slot is empty fails instead of  *)
(* handing the empty-string sentinel to the caller, whether the table is   *)
(* indexed directly or through decode_layer.                               *)
(***************************************************************************)
C15_LookupRejectsEmpty ==
    /\ (/\ Returned("VERB_TABLE[]")
        /\ args[1] \in DOMAIN VERB_TABLE
        /\ VERB_TABLE[args[1]] = "")
       => ~result.ok
    /\ (Returned("decode_layer") /\ result.ok)
       => \A k \in 1..Len(result.val) : result.val[k] # ""

(***************************************************************************)
(* C16.  decode_layer, for any of the 5 layers, applied to a sequence that *)
(* contains an id outside 0..21 fails for the whole call: no output        *)
(* sequence, no default and no empty string at the offending position.     *)
(***************************************************************************)
C16_DecodeRejectsUnknownId ==
    (/\ Returned("decode_layer")
     /\ args[2] \in {CORE, F1, F2, M1, M2}
     /\ ~AllSymbolIds(args[1]))
    => ~result.ok

(***************************************************************************)
(* C17.  relation_index(a, b) fails whenever a or b is outside 0..15: the  *)
(* spine ids 16..21 never yield an index.                                  *)
(***************************************************************************)
C17_RelationIndexRejects ==
    (/\ Returned("relation_index")
     /\ (args[1] \notin WheelIds \/ args[2] \notin WheelIds))
    => ~result.ok

(***************************************************************************)
(* C18.  relation_to_pair(index) fails for every index outside 0..135 and  *)
(* never returns a pair with a component outside 0..15.                    *)
(***************************************************************************)
C18_RelationToPairRejects ==
    Returned("relation_to_pair")
    => /\ args[1] \notin RelationIds => ~result.ok
       /\ result.ok => (result.val[1] \in WheelIds /\ result.val[2] \in WheelIds)

(***************************************************************************)
(* C19.  encode_phonemes fails, producing no id array, when any label of   *)
(* its input is not one of the 22 canonical strings; on known labels it    *)
(* returns one id per label, two positions sharing an id only when they    *)
(* hold the same label.  Matching is case-sensitive: H, h, A and a have    *)
(* four different ids, and no two of the 22 labels share an id.            *)
(***************************************************************************)
C19_EncodeUnknownLabel ==
    Returned("encode_phonemes")
    => /\ ~AllKnownLabels(args[1]) => ~result.ok
       /\ AllKnownLabels(args[1])
          => /\ result.ok
             /\ Len(result.val) = Len(args[1])
             /\ \A j, k \in 1..Len(args[1]) :
                    (result.val[j] = result.val[k]) <=> (args[1][j] = args[1][k])
       /\ Cardinality(DOMAIN PHONEME_TO_ID) = 22
       /\ Cardinality({PHONEME_TO_ID[l] : l \in {"H", "h", "A", "a"}}) = 4
       /\ \A l1, l2 \in DOMAIN PHONEME_TO_ID :
            l1 # l2 => PHONEME_TO_ID[l1] # PHONEME_TO_ID[l2]

\* A list with a known label and an unknown one: the call raises.
C19_Witness ==
    /\ Returned("encode_phonemes")
    /\ args = <<<<"H", "q">>>>
    /\ result = Raise("KeyError")
    /\ encode_phonemes(<<"H", "h">>) = Ok(<<ID_H, ID_HH>>)

(***************************************************************************)
(* C20.  The tables are never modified after construction: no step taken   *)
(* once the import is complete changes PHONEME_TO_ID, ID_TO_PHONEME,       *)
(* VERB_TABLE or CORE_VERB_TABLE, so they keep the contents they had at    *)
(* module load and a call made again returns what it returned before.      *)
(***************************************************************************)
\* The call that has just returned, made again on the tables as they are now.
CallAgain ==
    CASE op = "VERB_TABLE[]"           -> IF args[1] \in DOMAIN VERB_TABLE
                                          THEN Ok(VERB_TABLE[args[1]])
                                          ELSE Raise("IndexError")
      [] op = "encode_phonemes"        -> encode_phonemes(args[1])
      [] op = "decode_ids"             -> decode_ids(args[1])
      [] op = "decode_layer"           -> decode_layer(args[1], args[2])
      [] op = "decode_all_layers"      -> decode_all_layers(args[1])
      [] op = "decode_layered"         -> decode_layered(args[1])
      [] op = "decode_text"            -> decode_text(args[1])
      [] op = "phonemes_to_verbs_fast" -> phonemes_to_verbs_fast(args[1])
      [] OTHER                         -> result

FiveLayers(ids) ==
    <<decode_layer(ids, CORE), decode_layer(ids, F1), decode_layer(ids, F2),
      decode_layer(ids, M1), decode_layer(ids, M2)>>

C21_AllLayers ==
    /\ Returned("decode_all_layers")
       => LET ids == args[1]
              five == FiveLayers(ids)
          IN  /\ AllSymbolIds(ids) => result.ok
              /\ result.ok <=> \A n \in 1..5 : five[n].ok
              /\ result.ok
                 => /\ Len(result.val) = 5
                    /\ \A n \in 1..5 :
                          /\ Len(result.val[n]) = Len(ids)
                          /\ result.val[n] = five[n].val
    /\ Returned("decode_layered")
       => LET ids == args[1]
              five == FiveLayers(ids)
          IN  /\ AllSymbolIds(ids) => result.ok
              /\ result.ok
                 => /\ result.val.core = five[1].val
                    /\ result.val.f1 = five[2].val
                    /\ result.val.f2 = five[3].val
                    /\ result.val.m1 = five[4].val
                    /\ result.val.m2 = five[5].val
                    /\ result.val.phoneme_ids = ids

C21_Witness ==
    /\ Returned("decode_all_layers")
    /\ args = <<<<ID_N, ID_HH>>>>
    /\ result = Ok(<< <<"INTEGRATE", "SEE">>, <<"UNRAVEL", "WITNESS">>,
                      <<"INTERLOCK", "WITNESS">>, <<"FRAGMENT", "SEE">>,
                      <<"FUSE", "SEE">> >>)

(***************************************************************************)
(* C22.  For every list of labels drawn from the 22 canonical strings,     *)
(* decode_ids(encode_phonemes(labels)) returns the same list;              *)
(* ID_TO_PHONEME[PHONEME_TO_ID[p]] = p for each of the 22 labels, with the *)
(* wheel labels on ids 0..15 and the spine labels on ids 16..21.           *)
(***************************************************************************)
C22_LabelRoundTrip ==
    Returned("encode_phonemes")
    => /\ AllKnownLabels(args[1])
          => /\ result.ok
             /\ decode_ids(result.val) = Ok(args[1])
       /\ Cardinality(DOMAIN PHONEME_TO_ID) = NUM_PHONEMES
       /\ \A p \in DOMAIN PHONEME_TO_ID :
             /\ ID_TO_PHONEME[PHONEME_TO_ID[p]] = p
             /\ p \in DOMAIN PHONEME_HOURGLASSES
                <=> PHONEME_TO_ID[p] \in 0..(NUM_WHEEL - 1)
             /\ p \in DOMAIN SPINE_HOURGLASSES
                <=> PHONEME_TO_ID[p] \in NUM_WHEEL..(NUM_PHONEMES - 1)

C22_Witness ==
    /\ Returned("encode_phonemes")
    /\ args = <<<<"kh", "x">>>>
    /\ result = Ok(<<ID_KH, ID_X>>)
    /\ decode_ids(<<ID_KH, ID_X>>) = Ok(<<"kh", "x">>)

(***************************************************************************)
(* C23.  engine.decode_with_mode, engine.phonemes_to_verbs and             *)
(* mapping.phonemes_to_verbs never raise on an unknown phoneme: they       *)
(* return a list of the same length in which each known phoneme is         *)
(* replaced by its verb and each unknown phoneme p by '?' followed by p,   *)
(* at the same position.                                                   *)
(***************************************************************************)
\* The 22 labels of the bitwise tables are the known phonemes.
KnownLabel(p) == p \in DOMAIN PHONEME_TO_ID

C23_UnknownMarked ==
    /\ Returned("engine.decode_with_mode")
       => /\ result.ok
          /\ Len(result.val) = Len(args[1])
          /\ \A k \in 1..Len(args[1]) :
                LET p == args[1][k]
                IN  IF KnownLabel(p)
                    THEN result.val[k] =
                           VERB_TABLE[semantic_address(PHONEME_TO_ID[p],
                                                       mode_bit(args[2]), pole_bit(args[3]))]
                    ELSE result.val[k] = "?" \o p
    /\ Returned("engine.phonemes_to_verbs") \/ Returned("mapping.phonemes_to_verbs")
       => /\ result.ok
          /\ Len(result.val) = Len(args[1])
          /\ \A k \in 1..Len(args[1]) :
                LET p == args[1][k]
                IN  IF KnownLabel(p)
                    THEN result.val[k] = CORE_VERB_TABLE[PHONEME_TO_ID[p]]
                    ELSE result.val[k] = "?" \o p

C23_Witness ==
    /\ Returned("engine.phonemes_to_verbs")
    /\ args = <<<<"tj", "r">>>>
    /\ result = Ok(<<"?tj", "SHINE">>)

WheelLabels == {WHEEL_PHONEMES[k] : k \in 1..Len(WHEEL_PHONEMES)}

C25_RelationCensus ==
    Returned("engine.generate_relations")
    => LET pairs == result.val
           N == Len(pairs)
           self == {k \in 1..N : pairs[k][1] = pairs[k][2]}
           indexOf(a, b) == relation_index(a, b)
       IN  /\ result.ok
           /\ N = NUM_WHEEL_RELATIONS
           /\ N = 136
           /\ \A k \in 1..N : pairs[k][1] \in WheelLabels /\ pairs[k][2] \in WheelLabels
           /\ \A j, k \in 1..N :
                 j # k => {pairs[j][1], pairs[j][2]} # {pairs[k][1], pairs[k][2]}
           /\ Cardinality(self) = 16
           /\ {pairs[k][1] : k \in self} = WheelLabels
           /\ Cardinality((1..N) \ self) = 120
           /\ Cardinality({indexOf(a, a) : a \in WheelIds}) = 16
           /\ Cardinality({indexOf(p[1], p[2]) : p \in {q \in CanonicalPairs : q[1] # q[2]}}) = 120
           /\ {indexOf(a, a) : a \in WheelIds}
                \cap {indexOf(p[1], p[2]) : p \in {q \in CanonicalPairs : q[1] # q[2]}} = {}

C25_Witness ==
    /\ Returned("engine.generate_relations")
    /\ Len(result.val) = 136
    /\ result.val[1] = <<"n", "n">>
    /\ result.val[2] = <<"n", "w">>
    /\ result.val[136] = <<"dj", "dj">>

(***************************************************************************)
(* C26.  The two layered decoders are equivalent: for every sequence of    *)
(* the 22 canonical labels, the core, f1, f2, m1 and m2 lists of           *)
(* pyramid.decode_layered_sequence equal, position by position, the        *)
(* outputs of bitwise.decode_layer(encode_phonemes(phonemes), layer) for   *)
(* Core, F1, F2, M1 and M2.                                                *)
(***************************************************************************)
C26_LayeredDecodersAgree ==
    Returned("pyramid.decode_layered_sequence") /\ AllKnownLabels(args[1])
    => LET ids == encode_phonemes(args[1])
       IN  /\ result.ok /\ ids.ok
           /\ result.val.phonemes = args[1]
           /\ Ok(result.val.core) = decode_layer(ids.val, CORE)
           /\ Ok(result.val.f1) = decode_layer(ids.val, F1)
           /\ Ok(result.val.f2) = decode_layer(ids.val, F2)
           /\ Ok(result.val.m1) = decode_layer(ids.val, M1)
           /\ Ok(result.val.m2) = decode_layer(ids.val, M2)

C26_Witness ==
    /\ Returned("pyramid.decode_layered_sequence")
    /\ args = <<<<"w", "dj">>>>
    /\ result.val.core = <<"RADIATE", "DISCERN">>
    /\ result.val.f1 = <<"STAGNATE", "ACT">>
    /\ result.val.m2 = <<"FLOOD", "DISCERN">>

(***************************************************************************)
(* C27.  segment_by_fibonacci partitions its input: for every sequence and *)
(* every max_segments >= 1 the segments are all non-empty, their           *)
(* concatenation in order is the input sequence, and there are at most     *)
(* max_segments of them; the empty sequence yields no segments.            *)
(***************************************************************************)
RECURSIVE Flatten(_)
\* The concatenation, in order, of a sequence of sequences.
Flatten(segments) ==
    IF segments = <<>> THEN <<>> ELSE Head(segments) \o Flatten(Tail(segments))

C27_FibonacciPartition ==
    Returned("segment_by_fibonacci")
    => LET sequence == args[1]
           max_segments == args[2]
           segments == result.val
       IN  /\ result.ok
           /\ sequence = <<>> => segments = <<>>
           /\ max_segments >= 1
              => /\ \A k \in 1..Len(segments) : segments[k] # <<>>
                 /\ Flatten(segments) = sequence
                 /\ Len(segments) <= max_segments

C27_Witness ==
    /\ Returned("segment_by_fibonacci")
    /\ args = << <<1, 2, 3, 4, 5, 6, 7, 8, 9, 10, 11, 12>>, 2 >>
    /\ result = Ok(<< <<1, 2, 3, 4, 5, 6, 7>>, <<8, 9, 10, 11, 12>> >>)

(***************************************************************************)
(* C28.  detect_phi_boundaries(n) terminates for every n >= 0 and returns  *)
(* a strictly ascending list of positions b with 0 < b < n; it returns the *)
(* empty list for n <= 1, and the loop's remaining count strictly          *)
(* decreases on every iteration.                                           *)
(***************************************************************************)
StrictlyAscending(seq) == \A k \in 1..(Len(seq) - 1) : seq[k] < seq[k + 1]

C28_PhiBoundaries ==
    /\ [](Returned("detect_phi_boundaries")
          => /\ result.ok
             /\ StrictlyAscending(result.val)
             /\ \A k \in 1..Len(result.val) :
                   0 < result.val[k] /\ result.val[k] < args[1]
             /\ args[1] <= 1 => result.val = <<>>)
    /\ [][pc = "phi_loop" /\ pc' = "phi_loop" => remaining' < remaining]_vars
    /\ (pc = "phi_loop" ~> pc = "returned")

C28_Witness ==
    /\ Returned("detect_phi_boundaries")
    /\ args = <<16>>
    /\ result = Ok(<<9, 13, 14>>)

(***************************************************************************)
(* C29.  load_tla_corpus keeps a single-entry cache keyed by path: a call  *)
(* whose path equals the cached path returns the cached list without       *)
(* re-reading the file, a call with a different path re-reads and replaces *)
(* both cached list and cached path, and the list returned for path p is   *)
(* always the one built from p, never that of another path loaded before.  *)
(* (A call that cannot open its file returns no list and leaves the cache  *)
(* as it was.)                                                             *)
(***************************************************************************)
\* The path a call of load_tla_corpus with argument path reads.
Resolved(path) == IF path.some THEN path.val ELSE DefaultPath

C29_SingleEntryCache ==
    /\ [][pc = "ready" /\ op' = "load_tla_corpus"
          => LET p == Resolved(args'[1])
             IN  IF _corpus.some /\ _corpus_path = Some(p)
                 THEN /\ result' = Ok(_corpus.val)
                      /\ opened' = <<>>
                      /\ UNCHANGED caches
                 ELSE IF p \in DOMAIN files
                 THEN /\ opened' = <<p>>
                      /\ result' = Ok(ReadSentences(files, p))
                      /\ _corpus' = Some(ReadSentences(files, p))
                      /\ _corpus_path' = Some(p)
                 ELSE /\ ~result'.ok
                      /\ UNCHANGED caches]_vars
    /\ [](Returned("load_tla_corpus") /\ result.ok
          => result.val = ReadSentences(files, Resolved(args[1])))
    /\ [](_corpus.some
          => /\ _corpus_path.some
             /\ _corpus.val = ReadSentences(files, _corpus_path.val))

C29_Witness ==
    /\ Returned("load_tla_corpus")
    /\ args = <<Some(OtherPath)>>
    /\ opened = <<OtherPath>>
    /\ _corpus_path = Some(OtherPath)
    /\ _corpus = Some(ReadSentences(files, OtherPath))
    /\ _pyramid_texts.some
    /\ Len(ReadSentences(files, DefaultPath)) = MaxCorpus

(***************************************************************************)
(* C30.  pyramid.decode(n, start) over a corpus of S pyramid texts: when   *)
(* start >= S it raises ValueError and returns no lines; when              *)
(* 0 <= start < S it returns exactly min(n, S - start) DecodedLine objects *)
(* whose index fields are start, start+1, ... in corpus order, every index *)
(* in 0..S-1; decode_range(s, e), 1-based and inclusive, returns the same  *)
(* lines as decode(e - s + 1, s - 1).                                      *)
(***************************************************************************)
\* The Pyramid Texts of the corpus: the Unas sentences of the default file.
PyramidTexts ==
    SelectSeq(ReadSentences(files, DefaultPath),
              LAMBDA s : s.date_not_before = 0 - 2375 /\ s.date_not_after = 0 - 2345)

\* decode(n, start) returned count lines, the texts from start on.
DecodeWindow(n, start, count) ==
    LET S == Len(PyramidTexts)
    IN  /\ start >= S => result = Raise("ValueError")
        /\ 0 <= start /\ start < S
           => /\ result.ok
              /\ Len(result.val) = count
              /\ \A k \in 1..Len(result.val) :
                    /\ result.val[k].index = start + k - 1
                    /\ result.val[k].index \in 0..(S - 1)
                    /\ result.val[k].hieroglyphs = PyramidTexts[start + k].hieroglyphs

\* C30 as stated: decode returns min(n, S - start) lines, with the indices
\* start, start+1, ..., and raises ValueError when start >= S; decode_range(s, e)
\* returns what decode(e - s + 1, s - 1) returns.
C30_DecodeWindow ==
    /\ Returned("decode")
       => DecodeWindow(args[1], args[2], Min(args[1], Len(PyramidTexts) - args[2]))
    /\ Returned("decode_range")
       => result = decode(args[2] - args[1] + 1, args[1] - 1,
                          files, _corpus, _corpus_path, _pyramid_texts).result

\* C30 amended: decode returns min(n, S - start) lines when n >= 0 and none
\* when n < 0; the rest as stated, and decode_range(s, e) within 1..S returns
\* the e - s + 1 lines of indices s - 1 .. e - 1.
C30_DecodeWindowAmended ==
    /\ Returned("decode")
       => DecodeWindow(args[1], args[2],
                       Max(0, Min(args[1], Len(PyramidTexts) - args[2])))
    /\ Returned("decode_range")
       => /\ result = decode(args[2] - args[1] + 1, args[1] - 1,
                             files, _corpus, _corpus_path, _pyramid_texts).result
          /\ 1 <= args[1] /\ args[1] <= args[2] /\ args[2] <= Len(PyramidTexts)
             => /\ result.ok
                /\ Len(result.val) = args[2] - args[1] + 1
                /\ \A k \in 1..Len(result.val) : result.val[k].index = args[1] + k - 2

C30_Witness ==
    /\ Returned("decode")
    /\ Len(PyramidTexts) = 3
    /\ args = <<5, 1>>
    /\ result = Ok(<<DecodedLine(1, PyramidTexts[2]), DecodedLine(2, PyramidTexts[3])>>)
    /\ PyramidTexts[2] # PyramidTexts[3]

====
